---- MODULE Spec2Model ----
(***************************************************************************)
(* ThreadSafeCircularBuffer: a bounded blocking FIFO guarded by one mutex  *)
(* and two condition variables (not_full, not_empty), with a one-way       *)
(* close().  Every thread is modelled at the granularity of the points     *)
(* where another thread can interleave: acquiring the mutex, the code run  *)
(* while holding it, the suspension inside condition_variable::wait, and   *)
(* the notify calls issued after the mutex has been released.              *)
(* The module also holds the test drivers: a call-by-call run of the       *)
(* buffer, circularBufferTest, and ThreadSafeDeque under dequeTest.        *)
(***************************************************************************)
EXTENDS Integers, Sequences, FiniteSets, TLC

\* Capacity of the ring.  The source fixes it with #define BUFFER_SIZE 5; no
\* line of push, pop or close depends on the number, and the model runs the
\* same code on a smaller ring.
BUFFER_SIZE == 2

\* Number of values a run may push: a push may be called while fewer than
\* MaxPush values are inserted or about to be.
MaxPush == 3

\* The threads that call into the buffer when no harness drives the run.
Callers == {"t1", "t2", "t3"}

NoThread == "none"

\* The operations of the buffer: push, pop, close and the snapshots
\* empty / full / size.
Ops == {"push", "pop", "close", "snap"}

\* Any caller may call any operation.
AnyThread == [t \in Callers |-> Ops]

\* The division of work of circularBufferTest: worker threads that push and
\* pop, and the main thread, which closes the buffer and reads its size.
WorkersAndMain ==
    [t \in Callers |-> IF t = "t3" THEN {"close", "snap"} ELSE {"push", "pop"}]

\* Content of a slot of int buffer[BUFFER_SIZE] that was never assigned.
Uninit == 0

\* What a step that returns from a call leaves in ret: the calling thread,
\* the operation, its boolean result (true for void close() and for size())
\* and the value handed back (pop's out-parameter, size()'s result).
Returned(t, op, ok, v) == [thread |-> t, op |-> op, ok |-> ok, value |-> v]

\* ret in a state that was not reached by a returning step.
NoRet == Returned(NoThread, "none", FALSE, Uninit)

VARIABLES
    buffer,     \* int buffer[BUFFER_SIZE], indexed 0 .. BUFFER_SIZE-1
    in,         \* write index
    out,        \* read index
    count,      \* number of held items
    closed,     \* bool closed
    mtx,        \* the thread holding std::mutex mtx, or NoThread
    pc,         \* pc[t]: where thread t is inside the operation it runs
    arg,        \* arg[t]: the value parameter of t's push in progress
    val,        \* val[t]: the int& value out-parameter of t's pop in progress
    ret,        \* the call that returned in the last step, if one did
    pushed,     \* values inserted by push, in the order of insertion
    popped,     \* values removed by pop, in the order of removal
    may,        \* may[t]: the operations thread t of the run calls; never
                \* changes
    pushed_count,   \* std::atomic<int> pushed_count of the test harness
    popped_count,   \* std::atomic<int> popped_count of the test harness
    idx,        \* idx[t]: the loop index i of producer thread t
    finished,   \* the harness threads whose function has returned
    data        \* std::deque<T> data of ThreadSafeDeque, front first

vars == <<buffer, in, out, count, closed, mtx, pc, arg, val, ret,
          pushed, popped, may, pushed_count, popped_count, idx, finished, data>>

\* The threads of a run: those that were given operations to call.
Threads == DOMAIN may

queue == <<buffer, in, out, count, closed>>
harness == <<pushed_count, popped_count, idx, finished>>
hist == <<pushed, popped, may, harness, data>>

Slots == 0 .. (BUFFER_SIZE - 1)

Constructed ==
    /\ buffer = [i \in Slots |-> Uninit]
    /\ in = 0
    /\ out = 0
    /\ count = 0
    /\ closed = FALSE
    /\ mtx = NoThread
    /\ pc = [t \in Threads |-> "idle"]
    /\ arg = [t \in Threads |-> Uninit]
    /\ val = [t \in Threads |-> Uninit]
    /\ ret = NoRet
    /\ pushed = <<>>
    /\ popped = <<>>
    /\ pushed_count = 0
    /\ popped_count = 0
    /\ idx = [t \in Threads |-> 0]
    /\ finished = {}
    /\ data = <<>>

Init ==
    /\ may = AnyThread
    /\ Constructed

InitWorkersAndMain ==
    /\ may = WorkersAndMain
    /\ Constructed

----------------------------------------------------------------------------
\* The mutex and the condition variables.

\* Variant: the constructor returns without waiting for the mutex to be free.
LockWithoutExclusion(t, from, to) ==
    /\ pc[t] = from
    /\ mtx' = t
    /\ pc' = [pc EXCEPT ![t] = to]

\* std::unique_lock / std::lock_guard constructor: blocks until mtx is free.
Lock(t, from, to) ==
    /\ pc[t] = from
    /\ mtx = NoThread
    /\ mtx' = t
    /\ pc' = [pc EXCEPT ![t] = to]

\* The threads suspended in not_full.wait and in not_empty.wait.
WaitingNotFull == {t \in Threads : pc[t] = "push_wait"}
WaitingNotEmpty == {t \in Threads : pc[t] = "pop_wait"}

\* Variant: the predicate lets a push through at count == BUFFER_SIZE.
PushPredOffByOne == count <= BUFFER_SIZE \/ closed

\* The wait predicate of push: [this] { return count < BUFFER_SIZE || closed; }
PushPred == count < BUFFER_SIZE \/ closed

\* Variant: the predicate ignores closed.
PopPredIgnoresClosed == count > 0

\* The wait predicate of pop: [this] { return count > 0 || closed; }
PopPred == count > 0 \/ closed

\* Variant: a closed buffer rejects a push only when it is full.
PushFailsOnlyWhenFull == closed /\ count = BUFFER_SIZE

\* Variant: push does not look at closed after the wait.
PushFailsNever == FALSE

\* if (closed) return false;     in push, after the wait
PushFails == closed

\* Variant: pop tests closed before it looks for an item, as push does.
PopFailsWhenClosed == closed \/ count = 0

\* Variant: pop does not look at count after the wait.
PopFailsNever == FALSE

\* if (count == 0) return false; in pop, after the wait
PopFails == count = 0

\* Variant: the index stops at the last slot instead of wrapping.
NextIndexNoWrap(i) == IF i + 1 < BUFFER_SIZE THEN i + 1 ELSE i

\* in = (in + 1) % BUFFER_SIZE;  out = (out + 1) % BUFFER_SIZE;
NextIndex(i) == (i + 1) % BUFFER_SIZE

\* Variant: pop reads the slot at the write index.
HeadValueAtIn == buffer[in]

\* value = buffer[out];
HeadValue == buffer[out]

\* Variant: a broadcast where a single notification is meant.
NotifyOneWakesAll(t, waiters, relock, to) ==
    pc' = [u \in Threads |->
              IF u = t THEN to
              ELSE IF u \in waiters THEN relock
              ELSE pc[u]]

\* Variant: the notification is left out.
NotifyOneWakesNobody(t, waiters, relock, to) == pc' = [pc EXCEPT ![t] = to]

\* notify_one by thread t, which then continues at `to`: wakes one waiter of
\* the set (any one), or nobody when the set is empty.  A woken thread has
\* to reacquire the mutex before it re-evaluates its predicate.
NotifyOne(t, waiters, relock, to) ==
    \/ /\ waiters = {}
       /\ pc' = [pc EXCEPT ![t] = to]
    \/ \E w \in waiters :
          pc' = [pc EXCEPT ![t] = to, ![w] = relock]

\* Variant: a single notification where a broadcast is needed.
NotifyAllWakesOne(t, waiters, relock, to) == NotifyOne(t, waiters, relock, to)

\* notify_all by thread t: wakes every waiter of the set.
NotifyAll(t, waiters, relock, to) ==
    pc' = [u \in Threads |->
              IF u = t THEN to
              ELSE IF u \in waiters THEN relock
              ELSE pc[u]]

----------------------------------------------------------------------------
\* bool push(int value)

\* The threads inside push that have not inserted their value yet.
Pushing == {t \in Threads : pc[t] \in {"push_lock", "push_pred", "push_wait"}}

\* The value given to the next push call: values are numbered, so that each
\* inserted value identifies the call that inserted it.
FreshValue == Len(pushed) + Cardinality(Pushing) + 1

PushCall(t) ==
    /\ pc[t] = "idle"
    /\ "push" \in may[t]
    /\ FreshValue <= MaxPush
    /\ arg' = [arg EXCEPT ![t] = FreshValue]
    /\ pc' = [pc EXCEPT ![t] = "push_lock"]
    /\ ret' = NoRet
    /\ UNCHANGED <<queue, mtx, val, hist>>

PushLock(t) ==
    /\ Lock(t, "push_lock", "push_pred")
    /\ ret' = NoRet
    /\ UNCHANGED <<queue, arg, val, hist>>

\* not_full.wait(lock, pred) with pred false: release the mutex and suspend.
PushWait(t) ==
    /\ pc[t] = "push_pred"
    /\ ~PushPred
    /\ mtx' = NoThread
    /\ pc' = [pc EXCEPT ![t] = "push_wait"]
    /\ ret' = NoRet
    /\ UNCHANGED <<queue, arg, val, hist>>

\* pred true and closed: return false (the lock's destructor unlocks).
PushRejected(t) ==
    /\ pc[t] = "push_pred"
    /\ PushPred
    /\ PushFails
    /\ mtx' = NoThread
    /\ pc' = [pc EXCEPT ![t] = "idle"]
    /\ arg' = [arg EXCEPT ![t] = Uninit]
    /\ ret' = Returned(t, "push", FALSE, arg[t])
    /\ UNCHANGED <<queue, val, hist>>

\* pred true and open: store at in, advance in, ++count, unlock.
PushInsert(t) ==
    /\ pc[t] = "push_pred"
    /\ PushPred
    /\ ~PushFails
    /\ buffer' = [buffer EXCEPT ![in] = arg[t]]
    /\ in' = NextIndex(in)
    /\ count' = count + 1
    /\ pushed' = Append(pushed, arg[t])
    /\ mtx' = NoThread
    /\ pc' = [pc EXCEPT ![t] = "push_notify"]
    /\ ret' = NoRet
    /\ UNCHANGED <<out, closed, arg, val, popped, may, harness, data>>

\* not_empty.notify_one(); return true;
PushNotify(t) ==
    /\ pc[t] = "push_notify"
    /\ NotifyOne(t, WaitingNotEmpty, "pop_lock", "idle")
    /\ arg' = [arg EXCEPT ![t] = Uninit]
    /\ ret' = Returned(t, "push", TRUE, arg[t])
    /\ UNCHANGED <<queue, mtx, val, hist>>

\* A thread suspended in not_full.wait may wake without a notification.
PushSpuriousWake(t) ==
    /\ pc[t] = "push_wait"
    /\ pc' = [pc EXCEPT ![t] = "push_lock"]
    /\ ret' = NoRet
    /\ UNCHANGED <<queue, mtx, arg, val, hist>>

----------------------------------------------------------------------------
\* bool pop(int& value)

PopCall(t) ==
    /\ pc[t] = "idle"
    /\ "pop" \in may[t]
    /\ pc' = [pc EXCEPT ![t] = "pop_lock"]
    /\ ret' = NoRet
    /\ UNCHANGED <<queue, mtx, arg, val, hist>>

PopLock(t) ==
    /\ Lock(t, "pop_lock", "pop_pred")
    /\ ret' = NoRet
    /\ UNCHANGED <<queue, arg, val, hist>>

\* not_empty.wait(lock, pred) with pred false: release the mutex and suspend.
PopWait(t) ==
    /\ pc[t] = "pop_pred"
    /\ ~PopPred
    /\ mtx' = NoThread
    /\ pc' = [pc EXCEPT ![t] = "pop_wait"]
    /\ ret' = NoRet
    /\ UNCHANGED <<queue, arg, val, hist>>

\* pred true and count == 0: return false (closed and empty).
PopEndOfStream(t) ==
    /\ pc[t] = "pop_pred"
    /\ PopPred
    /\ PopFails
    /\ mtx' = NoThread
    /\ pc' = [pc EXCEPT ![t] = "idle"]
    /\ ret' = Returned(t, "pop", FALSE, val[t])
    /\ UNCHANGED <<queue, arg, val, hist>>

\* pred true and count > 0: read at out, advance out, --count, unlock.
PopRemove(t) ==
    /\ pc[t] = "pop_pred"
    /\ PopPred
    /\ ~PopFails
    /\ val' = [val EXCEPT ![t] = HeadValue]
    /\ out' = NextIndex(out)
    /\ count' = count - 1
    /\ popped' = Append(popped, HeadValue)
    /\ mtx' = NoThread
    /\ pc' = [pc EXCEPT ![t] = "pop_notify"]
    /\ ret' = NoRet
    /\ UNCHANGED <<buffer, in, closed, arg, pushed, may, harness, data>>

\* not_full.notify_one(); return true;
PopNotify(t) ==
    /\ pc[t] = "pop_notify"
    /\ NotifyOne(t, WaitingNotFull, "push_lock", "idle")
    /\ val' = [val EXCEPT ![t] = Uninit]
    /\ ret' = Returned(t, "pop", TRUE, val[t])
    /\ UNCHANGED <<queue, mtx, arg, hist>>

\* A thread suspended in not_empty.wait may wake without a notification.
PopSpuriousWake(t) ==
    /\ pc[t] = "pop_wait"
    /\ pc' = [pc EXCEPT ![t] = "pop_lock"]
    /\ ret' = NoRet
    /\ UNCHANGED <<queue, mtx, arg, val, hist>>

----------------------------------------------------------------------------
\* void close()

CloseCall(t) ==
    /\ pc[t] = "idle"
    /\ "close" \in may[t]
    /\ pc' = [pc EXCEPT ![t] = "close_lock"]
    /\ ret' = NoRet
    /\ UNCHANGED <<queue, mtx, arg, val, hist>>

CloseLock(t) ==
    /\ Lock(t, "close_lock", "close_set")
    /\ ret' = NoRet
    /\ UNCHANGED <<queue, arg, val, hist>>

\* Variant: close() flips the flag, so a second close() reopens the buffer.
CloseToggles(t) ==
    /\ pc[t] = "close_set"
    /\ closed' = ~closed
    /\ mtx' = NoThread
    /\ pc' = [pc EXCEPT ![t] = "close_notify_ne"]
    /\ ret' = NoRet
    /\ UNCHANGED <<buffer, in, out, count, arg, val, hist>>

\* Variant: close() also discards the items held.
CloseClears(t) ==
    /\ pc[t] = "close_set"
    /\ closed' = TRUE
    /\ count' = 0
    /\ out' = in
    /\ mtx' = NoThread
    /\ pc' = [pc EXCEPT ![t] = "close_notify_ne"]
    /\ ret' = NoRet
    /\ UNCHANGED <<buffer, in, arg, val, hist>>

\* { lock_guard; closed = true; }
CloseSet(t) ==
    /\ pc[t] = "close_set"
    /\ closed' = TRUE
    /\ mtx' = NoThread
    /\ pc' = [pc EXCEPT ![t] = "close_notify_ne"]
    /\ ret' = NoRet
    /\ UNCHANGED <<buffer, in, out, count, arg, val, hist>>

\* not_empty.notify_all();
CloseNotifyNotEmpty(t) ==
    /\ pc[t] = "close_notify_ne"
    /\ NotifyAll(t, WaitingNotEmpty, "pop_lock", "close_notify_nf")
    /\ ret' = NoRet
    /\ UNCHANGED <<queue, mtx, arg, val, hist>>

\* not_full.notify_all(); and return
CloseNotifyNotFull(t) ==
    /\ pc[t] = "close_notify_nf"
    /\ NotifyAll(t, WaitingNotFull, "push_lock", "idle")
    /\ ret' = Returned(t, "close", TRUE, Uninit)
    /\ UNCHANGED <<queue, mtx, arg, val, hist>>

----------------------------------------------------------------------------
\* bool empty() const, bool full() const, size_t size() const

SnapOps == {"empty", "full", "size"}

SnapCall(t) ==
    /\ pc[t] = "idle"
    /\ "snap" \in may[t]
    /\ \E op \in SnapOps : pc' = [pc EXCEPT ![t] = op \o "_lock"]
    /\ ret' = NoRet
    /\ UNCHANGED <<queue, mtx, arg, val, hist>>

SnapLock(t) ==
    /\ \E op \in SnapOps : Lock(t, op \o "_lock", op \o "_read")
    /\ ret' = NoRet
    /\ UNCHANGED <<queue, arg, val, hist>>

\* Variant: full() compares with BUFFER_SIZE - 1.
SnapReadFullOffByOne(t) ==
    /\ \E op \in SnapOps :
          /\ pc[t] = op \o "_read"
          /\ ret' = CASE op = "empty" -> Returned(t, op, count = 0, Uninit)
                      [] op = "full" ->
                            Returned(t, op, count = BUFFER_SIZE - 1, Uninit)
                      [] op = "size" -> Returned(t, op, TRUE, count)
    /\ mtx' = NoThread
    /\ pc' = [pc EXCEPT ![t] = "idle"]
    /\ UNCHANGED <<queue, arg, val, hist>>

\* return count == 0;  return count == BUFFER_SIZE;
\* return static_cast<size_t>(count);
SnapRead(t) ==
    /\ \E op \in SnapOps :
          /\ pc[t] = op \o "_read"
          /\ ret' = CASE op = "empty" -> Returned(t, op, count = 0, Uninit)
                      [] op = "full" -> Returned(t, op, count = BUFFER_SIZE, Uninit)
                      [] op = "size" -> Returned(t, op, TRUE, count)
    /\ mtx' = NoThread
    /\ pc' = [pc EXCEPT ![t] = "idle"]
    /\ UNCHANGED <<queue, arg, val, hist>>

----------------------------------------------------------------------------

Next ==
    \E t \in Threads :
        \/ PushCall(t)
        \/ PushLock(t)
        \/ PushWait(t)
        \/ PushRejected(t)
        \/ PushInsert(t)
        \/ PushNotify(t)
        \/ PushSpuriousWake(t)
        \/ PopCall(t)
        \/ PopLock(t)
        \/ PopWait(t)
        \/ PopEndOfStream(t)
        \/ PopRemove(t)
        \/ PopNotify(t)
        \/ PopSpuriousWake(t)
        \/ CloseCall(t)
        \/ CloseLock(t)
        \/ CloseSet(t)
        \/ CloseNotifyNotEmpty(t)
        \/ CloseNotifyNotFull(t)
        \/ SnapCall(t)
        \/ SnapLock(t)
        \/ SnapRead(t)

Spec == Init /\ [][Next]_vars

\* A thread inside a call keeps being scheduled: the steps that need no lock.
Run(t) ==
    \/ PushWait(t) \/ PushRejected(t) \/ PushInsert(t) \/ PushNotify(t)
    \/ PopWait(t) \/ PopEndOfStream(t) \/ PopRemove(t) \/ PopNotify(t)
    \/ CloseSet(t) \/ CloseNotifyNotEmpty(t) \/ CloseNotifyNotFull(t)
    \/ SnapRead(t)

\* A thread blocked on the mutex gets it after finitely many releases.
Acquire(t) == PushLock(t) \/ PopLock(t) \/ CloseLock(t) \/ SnapLock(t)

\* Fair scheduling: running threads make progress and no thread starves on
\* the mutex.  Calling an operation and waking spuriously are never forced.
FairSpec ==
    /\ InitWorkersAndMain
    /\ [][Next]_vars
    /\ \A t \in Callers : WF_vars(Run(t)) /\ SF_vars(Acquire(t))

----------------------------------------------------------------------------
\* Properties of the buffer.

InPush(t) == pc[t] \in {"push_lock", "push_pred", "push_wait", "push_notify"}
InPop(t) == pc[t] \in {"pop_lock", "pop_pred", "pop_wait", "pop_notify"}
InClose(t) ==
    pc[t] \in {"close_lock", "close_set", "close_notify_ne", "close_notify_nf"}

IsPrefix(s, u) == Len(s) <= Len(u) /\ SubSeq(u, 1, Len(s)) = s

\* A pop by some thread returned end-of-stream in the last step.
PopReturnedEndOfStream == ret.op = "pop" /\ ~ret.ok

\* C1: count stays within 0 .. capacity in every reachable state, whatever
\* the interleaving of push, pop and close; hence no push inserts into a
\* buffer whose count already equals the capacity.
C1_CountWithinCapacity == count \in 0 .. BUFFER_SIZE

\* A producer is suspended on a full buffer.
C1_Witness ==
    /\ count = BUFFER_SIZE
    /\ \E t \in Threads : pc[t] = "push_wait"

\* C2: the values removed by pops, in the order of removal, are a prefix of
\* the values inserted by pushes, in the order of insertion.
C2_Fifo == IsPrefix(popped, pushed)

\* Two producers inserted in the opposite order of their calls, and the pops
\* have gone once around the ring.
C2_Witness ==
    /\ Len(popped) > BUFFER_SIZE
    /\ pushed[1] > pushed[2]

\* C3: no item is lost or delivered twice: the accepted pushes are the
\* successful pops plus the items held, and when a pop returns end-of-stream
\* nothing is held and the pops have delivered exactly what was pushed.
C3_NoItemLoss ==
    /\ Len(pushed) = Len(popped) + count
    /\ PopReturnedEndOfStream => (count = 0 /\ popped = pushed)

\* A pop returns end-of-stream after every pushed value was popped.
C3_Witness ==
    /\ PopReturnedEndOfStream
    /\ Len(popped) = MaxPush

\* C4: pop returns end-of-stream only when the buffer is closed and empty,
\* and a pop that finds count > 0 takes the head value, closed or not.
C4_DrainBeforeEndOfStream ==
    /\ [](PopReturnedEndOfStream => (closed /\ count = 0))
    /\ [][\A t \in Threads :
            (pc[t] = "pop_pred" /\ pc'[t] # "pop_pred" /\ count > 0)
                => /\ pc'[t] = "pop_notify"
                   /\ val'[t] = buffer[out]
                   /\ popped' = Append(popped, buffer[out])
                   /\ count' = count - 1]_vars

\* A pop took an item from a buffer that was already closed.
C4_Witness ==
    /\ closed
    /\ \E t \in Threads : pc[t] = "pop_notify" /\ val[t] # Uninit
    /\ \E t \in Threads : pc[t] = "close_notify_nf"

\* C5: once the buffer is closed, every pop in progress returns, and the
\* pops that still succeed are the items held: closing freezes popped + count.
C5_PopsTerminateAfterClose ==
    /\ \A t \in Callers :
          (closed /\ InPop(t)) ~> (ret.thread = t /\ ret.op = "pop")
    /\ [][closed => Len(popped') + count' = Len(popped) + count]_vars

\* The buffer is closed, one pop has returned end-of-stream and another pop
\* is still suspended, the closing thread being about to notify.
C5_Witness ==
    /\ closed
    /\ PopReturnedEndOfStream
    /\ \E t \in Threads : pc[t] = "pop_wait"

C7_ClosedPushRejected ==
    [][\A t \in Threads :
         /\ (closed /\ pc[t] = "idle" /\ pc'[t] = "push_lock")
               => UNCHANGED queue
         /\ (closed /\ pc[t] = "push_lock" /\ pc'[t] # "push_lock")
               => (pc'[t] = "push_pred" /\ UNCHANGED queue)
         /\ (closed /\ pc[t] = "push_pred" /\ pc'[t] # "push_pred")
               => /\ pc'[t] = "idle"
                  /\ ret' = Returned(t, "push", FALSE, arg[t])
                  /\ UNCHANGED queue]_vars

\* A push was rejected by a closed buffer that had free space.
C7_Witness ==
    /\ closed
    /\ count < BUFFER_SIZE
    /\ ret.op = "push" /\ ~ret.ok

\* C8: once closed is true no step inserts: count never increases, nothing
\* is stored and the write index stays, also for a push that was suspended
\* on a full buffer, or woken and waiting for the mutex, when the buffer was
\* closed; such a push returns false.
C8_NoInsertionAfterClose ==
    /\ [][closed => (count' <= count /\ pushed' = pushed /\ in' = in
                        /\ buffer' = buffer)]_vars
    /\ [][\A t \in Threads :
            (closed /\ pc[t] \in {"push_wait", "push_lock", "push_pred"}
                    /\ pc'[t] # pc[t])
               => \/ pc[t] = "push_wait" /\ pc'[t] = "push_lock"
                  \/ pc[t] = "push_lock" /\ pc'[t] = "push_pred"
                  \/ /\ pc[t] = "push_pred" /\ pc'[t] = "idle"
                     /\ ret'.op = "push" /\ ret'.thread = t /\ ~ret'.ok]_vars

\* The buffer was closed while a push was suspended, and a pop has since
\* made space: the push is still to wake and must not insert.
C8_Witness ==
    /\ closed
    /\ count < BUFFER_SIZE
    /\ \E t \in Threads : pc[t] = "push_wait"

\* C9: closed starts false and, once true, stays true in every step of every
\* operation.
C9_ClosedMonotonic ==
    /\ ~closed
    /\ [][closed => closed']_vars

\* The buffer is closed and push, pop and a snapshot have run on it since.
C9_Witness ==
    /\ closed
    /\ ret.op \in {"empty", "full", "size"}
    /\ \E t \in Threads : pc[t] = "pop_notify"
    /\ \E t \in Threads : pc[t] = "push_lock"

\* C10: a step of close() changes nothing but the closed flag: count, the
\* items, their order and the indices stay, and a close() on a closed buffer
\* changes nothing of the buffer at all.
C10_CloseOnlySetsClosed ==
    [][\A t \in Threads :
         (InClose(t) /\ pc'[t] # pc[t])
            => /\ UNCHANGED <<buffer, in, out, count, pushed, popped>>
               /\ closed => UNCHANGED queue
               /\ pc[t] = "close_set" => closed']_vars

\* Two close() calls have set the flag on a buffer that holds items.
C10_Witness ==
    /\ closed
    /\ count > 0
    /\ \E t, u \in Threads :
          /\ t # u
          /\ pc[t] = "close_notify_ne"
          /\ pc[u] = "close_notify_nf"

\* A driver for a single run: t1 pushes ScenarioItems values one after the
\* other, t2 pops, t3 closes and in between takes snapshots.
ScenarioRoles ==
    [t \in Callers |->
        IF t = "t1" THEN {"push"}
        ELSE IF t = "t2" THEN {"pop"}
        ELSE {"close", "snap"}]

\* One value more than the ring holds.
ScenarioItems == BUFFER_SIZE + 1

InitScenario == may = ScenarioRoles /\ Constructed

\* The next push is called as soon as the one before has returned.
ScenarioPushCall(t) == PushCall(t) /\ FreshValue <= ScenarioItems

\* The first pop is called once the last push is suspended, each further one
\* once that push has returned, and the final one after close() has returned.
ScenarioPopCall(t) ==
    /\ PopCall(t)
    /\ \/ popped = <<>> /\ WaitingNotFull # {}
       \/ /\ Len(popped) \in 1 .. BUFFER_SIZE
          /\ Len(pushed) = ScenarioItems
          /\ \A u \in Threads : ~InPush(u)
       \/ /\ Len(popped) = ScenarioItems
          /\ closed
          /\ \A u \in Threads : ~InClose(u)

\* close() is called once the last item has been popped.
ScenarioCloseCall(t) ==
    /\ CloseCall(t)
    /\ ~closed
    /\ Len(popped) = ScenarioItems
    /\ \A u \in Threads : ~InPop(u)

\* The steps of the driver's calls that do not depend on a spurious wakeup.
ScenarioStep ==
    \E t \in Threads :
        \/ ScenarioPushCall(t) \/ PushLock(t) \/ PushWait(t)
        \/ PushInsert(t) \/ PushNotify(t)
        \/ ScenarioPopCall(t) \/ PopLock(t) \/ PopRemove(t) \/ PopNotify(t)
        \/ PopEndOfStream(t)
        \/ ScenarioCloseCall(t) \/ CloseLock(t) \/ CloseSet(t)
        \/ CloseNotifyNotEmpty(t) \/ CloseNotifyNotFull(t)

ScenarioNext ==
    \/ ScenarioStep
    \/ \E t \in Threads :
        \/ PushSpuriousWake(t)
        \/ SnapCall(t) \/ SnapLock(t) \/ SnapRead(t)

ScenarioSpec == InitScenario /\ [][ScenarioNext]_vars

----------------------------------------------------------------------------
\* void circularBufferTest()

\* Items each producer pushes.  The source has 10; the loop is the same for
\* any number.
ITEMS_PER_PRODUCER == 1

\* NUM_PRODUCERS = 3 producer threads, NUM_CONSUMERS = 2 consumer threads, and
\* the thread running circularBufferTest itself.
Producers == {"t1", "t2", "t3"}
Consumers == {"t4", "t5"}
Main == "t7"

TOTAL_ITEMS == Cardinality(Producers) * ITEMS_PER_PRODUCER

TestRoles ==
    [t \in Producers \cup Consumers \cup {Main} |->
        IF t \in Producers THEN {"push"}
        ELSE IF t \in Consumers THEN {"pop"}
        ELSE {"close", "snap"}]

InitTest == may = TestRoles /\ Constructed

\* for (int i = 0; i < ITEMS_PER_PRODUCER; ++i) ... cb.push(value)
ProducerPush(t) ==
    /\ t \in Producers
    /\ t \notin finished
    /\ idx[t] < ITEMS_PER_PRODUCER
    /\ pc[t] = "idle"
    /\ arg' = [arg EXCEPT ![t] = FreshValue]
    /\ pc' = [pc EXCEPT ![t] = "push_lock"]
    /\ ret' = NoRet
    /\ UNCHANGED <<queue, mtx, val, hist>>

\* push returns true: ++pushed_count, ++i, and the thread function returns
\* after the last item.
ProducerPushed(t) ==
    /\ t \in Producers
    /\ pc[t] = "push_notify"
    /\ NotifyOne(t, WaitingNotEmpty, "pop_lock", "idle")
    /\ arg' = [arg EXCEPT ![t] = Uninit]
    /\ ret' = Returned(t, "push", TRUE, arg[t])
    /\ pushed_count' = pushed_count + 1
    /\ idx' = [idx EXCEPT ![t] = idx[t] + 1]
    /\ finished' = IF idx[t] + 1 = ITEMS_PER_PRODUCER
                   THEN finished \cup {t} ELSE finished
    /\ UNCHANGED <<queue, mtx, val, pushed, popped, may, popped_count, data>>

\* if (!cb.push(value)) { ...; return; }
ProducerRejected(t) ==
    /\ t \in Producers
    /\ pc[t] = "push_pred"
    /\ PushPred
    /\ PushFails
    /\ mtx' = NoThread
    /\ pc' = [pc EXCEPT ![t] = "idle"]
    /\ arg' = [arg EXCEPT ![t] = Uninit]
    /\ ret' = Returned(t, "push", FALSE, arg[t])
    /\ finished' = finished \cup {t}
    /\ UNCHANGED <<queue, val, pushed, popped, may, pushed_count, popped_count,
                   idx, data>>

\* while (true) { int value; if (!cb.pop(value)) break; ... }
ConsumerPop(t) ==
    /\ t \in Consumers
    /\ t \notin finished
    /\ PopCall(t)

\* pop returns true: popped_count.fetch_add(1)
ConsumerPopped(t) ==
    /\ t \in Consumers
    /\ pc[t] = "pop_notify"
    /\ NotifyOne(t, WaitingNotFull, "push_lock", "idle")
    /\ val' = [val EXCEPT ![t] = Uninit]
    /\ ret' = Returned(t, "pop", TRUE, val[t])
    /\ popped_count' = popped_count + 1
    /\ UNCHANGED <<queue, mtx, arg, pushed, popped, may, pushed_count, idx,
                   finished, data>>

\* pop returns false: break, and the thread function returns.
ConsumerEndOfStream(t) ==
    /\ t \in Consumers
    /\ pc[t] = "pop_pred"
    /\ PopPred
    /\ PopFails
    /\ mtx' = NoThread
    /\ pc' = [pc EXCEPT ![t] = "idle"]
    /\ ret' = Returned(t, "pop", FALSE, val[t])
    /\ finished' = finished \cup {t}
    /\ UNCHANGED <<queue, arg, val, pushed, popped, may, pushed_count,
                   popped_count, idx, data>>

\* Variant: close() is called without joining the producers first.
MainCloseWithoutJoin(t) ==
    /\ t = Main
    /\ ~closed
    /\ CloseCall(t)

\* for (auto& t : producers) t.join();  cb.close();
MainClose(t) ==
    /\ t = Main
    /\ Producers \subseteq finished
    /\ ~closed
    /\ CloseCall(t)

\* for (auto& t : consumers) t.join();  ... cb.size()
MainSize(t) ==
    /\ t = Main
    /\ t \notin finished
    /\ closed
    /\ Consumers \subseteq finished
    /\ pc[t] = "idle"
    /\ pc' = [pc EXCEPT ![t] = "size_lock"]
    /\ ret' = NoRet
    /\ UNCHANGED <<queue, mtx, arg, val, hist>>

\* size() returns and circularBufferTest prints the three numbers.
MainSizeRead(t) ==
    /\ t = Main
    /\ pc[t] = "size_read"
    /\ ret' = Returned(t, "size", TRUE, count)
    /\ mtx' = NoThread
    /\ pc' = [pc EXCEPT ![t] = "idle"]
    /\ finished' = finished \cup {t}
    /\ UNCHANGED <<queue, arg, val, pushed, popped, may, pushed_count,
                   popped_count, idx, data>>

\* The steps a scheduled thread of the test takes without needing the mutex.
TestRun(t) ==
    \/ ProducerPush(t) \/ PushWait(t) \/ PushInsert(t) \/ ProducerPushed(t)
    \/ ConsumerPop(t) \/ PopWait(t) \/ PopRemove(t) \/ ConsumerPopped(t)
    \/ ConsumerEndOfStream(t)
    \/ MainClose(t) \/ CloseSet(t) \/ CloseNotifyNotEmpty(t)
    \/ CloseNotifyNotFull(t)
    \/ MainSize(t) \/ MainSizeRead(t)

TestNext ==
    \E t \in Threads :
        \/ ProducerPush(t)
        \/ PushLock(t)
        \/ PushWait(t)
        \/ PushInsert(t)
        \/ ProducerPushed(t)
        \/ PushSpuriousWake(t)
        \/ ConsumerPop(t)
        \/ PopLock(t)
        \/ PopWait(t)
        \/ PopRemove(t)
        \/ ConsumerPopped(t)
        \/ ConsumerEndOfStream(t)
        \/ PopSpuriousWake(t)
        \/ MainClose(t)
        \/ CloseLock(t)
        \/ CloseSet(t)
        \/ CloseNotifyNotEmpty(t)
        \/ CloseNotifyNotFull(t)
        \/ MainSize(t)
        \/ SnapLock(t)
        \/ MainSizeRead(t)

\* Fair scheduling of the test: every thread keeps running its function and
\* none starves on the mutex; spurious wakeups are never forced.  The return
\* of a rejected push is not among the steps: no run enables it (C17).
TestSpec ==
    /\ InitTest
    /\ [][TestNext]_vars
    /\ \A t \in Producers \cup Consumers \cup {Main} :
          WF_vars(TestRun(t)) /\ SF_vars(Acquire(t))

----------------------------------------------------------------------------
\* template <typename T> class ThreadSafeDeque, and void dequeTest()
\* (thread_safe_deque.cpp).  Every member function runs under one lock_guard
\* on the deque's own mutex; mtx stands for that mutex in the runs of
\* dequeTest, which never touch the circular buffer.

\* The member functions dequeTest calls.
DequeOps == {"push_front", "push_back", "pop_front", "pop_back", "size"}

\* NUM_CONSUMERS = 3 consumer threads; the producers are three as above.
DequeConsumers == {"t4", "t5", "t6"}

\* The p of a producer lambda and the c of a consumer lambda.
ThreadIndex(t) ==
    CASE t \in {"t1", "t4"} -> 0
      [] t \in {"t2", "t5"} -> 1
      [] t \in {"t3", "t6"} -> 2

\* (p % 2 == 0) ? push_back : push_front;  (c % 2 == 0) ? pop_front : pop_back
DequeRoles ==
    [t \in Producers \cup DequeConsumers \cup {Main} |->
        IF t \in Producers
        THEN (IF ThreadIndex(t) % 2 = 0 THEN {"push_back"} ELSE {"push_front"})
        ELSE IF t \in DequeConsumers
        THEN (IF ThreadIndex(t) % 2 = 0 THEN {"pop_front"} ELSE {"pop_back"})
        ELSE {"size"}]

InitDeque == may = DequeRoles /\ Constructed

\* for (int i = 0; i < ITEMS_PER_PRODUCER; ++i) { int v = p * 100 + i; ...
DequeProducerPush(t) ==
    /\ t \in Producers
    /\ t \notin finished
    /\ idx[t] < ITEMS_PER_PRODUCER
    /\ pc[t] = "idle"
    /\ \E op \in may[t] : pc' = [pc EXCEPT ![t] = "dq_" \o op \o "_lock"]
    /\ arg' = [arg EXCEPT ![t] = ThreadIndex(t) * 100 + idx[t]]
    /\ ret' = NoRet
    /\ UNCHANGED <<queue, mtx, val, hist>>

\* std::lock_guard<std::mutex> lock(mtx);
DequeLock(t) ==
    /\ \E op \in DequeOps : Lock(t, "dq_" \o op \o "_lock", "dq_" \o op \o "_body")
    /\ ret' = NoRet
    /\ UNCHANGED <<queue, arg, val, hist>>

\* data.push_front(value);
DequePushFront(t) ==
    /\ pc[t] = "dq_push_front_body"
    /\ data' = <<arg[t]>> \o data
    /\ pushed' = Append(pushed, arg[t])
    /\ mtx' = NoThread
    /\ pc' = [pc EXCEPT ![t] = "dq_pushed"]
    /\ arg' = [arg EXCEPT ![t] = Uninit]
    /\ ret' = Returned(t, "push_front", TRUE, arg[t])
    /\ UNCHANGED <<queue, val, popped, may, harness>>

\* data.push_back(value);
DequePushBack(t) ==
    /\ pc[t] = "dq_push_back_body"
    /\ data' = Append(data, arg[t])
    /\ pushed' = Append(pushed, arg[t])
    /\ mtx' = NoThread
    /\ pc' = [pc EXCEPT ![t] = "dq_pushed"]
    /\ arg' = [arg EXCEPT ![t] = Uninit]
    /\ ret' = Returned(t, "push_back", TRUE, arg[t])
    /\ UNCHANGED <<queue, val, popped, may, harness>>

\* ++pushed_count; and the end of the loop body.
DequeProducerCount(t) ==
    /\ pc[t] = "dq_pushed"
    /\ pushed_count' = pushed_count + 1
    /\ idx' = [idx EXCEPT ![t] = idx[t] + 1]
    /\ finished' = IF idx[t] + 1 = ITEMS_PER_PRODUCER
                   THEN finished \cup {t} ELSE finished
    /\ pc' = [pc EXCEPT ![t] = "idle"]
    /\ ret' = NoRet
    /\ UNCHANGED <<queue, mtx, arg, val, pushed, popped, may, popped_count, data>>

\* while (popped_count.load() < TOTAL_ITEMS) { ... pop_front / pop_back
DequeConsumerPop(t) ==
    /\ t \in DequeConsumers
    /\ t \notin finished
    /\ popped_count < TOTAL_ITEMS
    /\ pc[t] = "idle"
    /\ \E op \in may[t] : pc' = [pc EXCEPT ![t] = "dq_" \o op \o "_lock"]
    /\ ret' = NoRet
    /\ UNCHANGED <<queue, mtx, arg, val, hist>>

\* The loop condition is false: the consumer's function returns.
DequeConsumerExit(t) ==
    /\ t \in DequeConsumers
    /\ t \notin finished
    /\ popped_count >= TOTAL_ITEMS
    /\ pc[t] = "idle"
    /\ finished' = finished \cup {t}
    /\ ret' = NoRet
    /\ UNCHANGED <<queue, mtx, pc, arg, val, pushed, popped, may, pushed_count,
                   popped_count, idx, data>>

\* if (data.empty()) return false;   (the consumer then sleeps and loops)
DequePopFrontEmpty(t) ==
    /\ pc[t] = "dq_pop_front_body"
    /\ data = <<>>
    /\ mtx' = NoThread
    /\ pc' = [pc EXCEPT ![t] = "idle"]
    /\ ret' = Returned(t, "pop_front", FALSE, val[t])
    /\ UNCHANGED <<queue, arg, val, hist>>

\* value = data.front(); data.pop_front(); return true;
DequePopFrontTake(t) ==
    /\ pc[t] = "dq_pop_front_body"
    /\ data # <<>>
    /\ data' = Tail(data)
    /\ popped' = Append(popped, Head(data))
    /\ mtx' = NoThread
    /\ pc' = [pc EXCEPT ![t] = "dq_popped"]
    /\ ret' = Returned(t, "pop_front", TRUE, Head(data))
    /\ UNCHANGED <<queue, arg, val, pushed, may, harness>>

DequePopBackEmpty(t) ==
    /\ pc[t] = "dq_pop_back_body"
    /\ data = <<>>
    /\ mtx' = NoThread
    /\ pc' = [pc EXCEPT ![t] = "idle"]
    /\ ret' = Returned(t, "pop_back", FALSE, val[t])
    /\ UNCHANGED <<queue, arg, val, hist>>

\* Variant: pop_back hands out data.back() and leaves it in the deque.
DequePopBackKeepsItem(t) ==
    /\ pc[t] = "dq_pop_back_body"
    /\ data # <<>>
    /\ popped' = Append(popped, data[Len(data)])
    /\ mtx' = NoThread
    /\ pc' = [pc EXCEPT ![t] = "dq_popped"]
    /\ ret' = Returned(t, "pop_back", TRUE, data[Len(data)])
    /\ UNCHANGED <<queue, arg, val, pushed, may, harness, data>>

\* value = data.back(); data.pop_back(); return true;
DequePopBackTake(t) ==
    /\ pc[t] = "dq_pop_back_body"
    /\ data # <<>>
    /\ data' = SubSeq(data, 1, Len(data) - 1)
    /\ popped' = Append(popped, data[Len(data)])
    /\ mtx' = NoThread
    /\ pc' = [pc EXCEPT ![t] = "dq_popped"]
    /\ ret' = Returned(t, "pop_back", TRUE, data[Len(data)])
    /\ UNCHANGED <<queue, arg, val, pushed, may, harness>>

\* popped_count.fetch_add(1);
DequeConsumerCount(t) ==
    /\ pc[t] = "dq_popped"
    /\ popped_count' = popped_count + 1
    /\ pc' = [pc EXCEPT ![t] = "idle"]
    /\ ret' = NoRet
    /\ UNCHANGED <<queue, mtx, arg, val, pushed, popped, may, pushed_count,
                   idx, finished, data>>

\* for (auto& t : producers) t.join(); for (auto& t : consumers) t.join();
\* ... dq.size()
DequeMainSize(t) ==
    /\ t = Main
    /\ t \notin finished
    /\ Producers \cup DequeConsumers \subseteq finished
    /\ pc[t] = "idle"
    /\ pc' = [pc EXCEPT ![t] = "dq_size_lock"]
    /\ ret' = NoRet
    /\ UNCHANGED <<queue, mtx, arg, val, hist>>

\* return data.size();  and dequeTest prints the three numbers.
DequeSize(t) ==
    /\ pc[t] = "dq_size_body"
    /\ ret' = Returned(t, "size", TRUE, Len(data))
    /\ mtx' = NoThread
    /\ pc' = [pc EXCEPT ![t] = "idle"]
    /\ finished' = finished \cup {t}
    /\ UNCHANGED <<queue, arg, val, pushed, popped, may, pushed_count,
                   popped_count, idx, data>>

\* The steps a scheduled thread of dequeTest takes without needing the mutex.
DequeRun(t) ==
    \/ DequeProducerPush(t) \/ DequePushFront(t) \/ DequePushBack(t)
    \/ DequeProducerCount(t)
    \/ DequeConsumerPop(t) \/ DequeConsumerExit(t)
    \/ DequePopFrontEmpty(t) \/ DequePopFrontTake(t)
    \/ DequePopBackEmpty(t) \/ DequePopBackTake(t)
    \/ DequeConsumerCount(t)
    \/ DequeMainSize(t) \/ DequeSize(t)

DequeNext ==
    \E t \in Threads :
        \/ DequeProducerPush(t)
        \/ DequeLock(t)
        \/ DequePushFront(t)
        \/ DequePushBack(t)
        \/ DequeProducerCount(t)
        \/ DequeConsumerPop(t)
        \/ DequeConsumerExit(t)
        \/ DequePopFrontEmpty(t)
        \/ DequePopFrontTake(t)
        \/ DequePopBackEmpty(t)
        \/ DequePopBackTake(t)
        \/ DequeConsumerCount(t)
        \/ DequeMainSize(t)
        \/ DequeSize(t)

\* dequeTest under fair scheduling.
DequeSpec ==
    /\ InitDeque
    /\ [][DequeNext]_vars
    /\ \A t \in Producers \cup DequeConsumers \cup {Main} :
          WF_vars(DequeRun(t)) /\ SF_vars(DequeLock(t))

\* The values of a sequence.
Range(s) == {s[k] : k \in 1 .. Len(s)}

\* The threads that a step of another thread took out of a wait.
Woken(waiters) == {w \in waiters : pc'[w] # pc[w]}

\* Thread t takes a step of the call it is in.
Steps(t) == pc'[t] # pc[t]

\* The positions at which a thread holds the mutex.
HoldingPcs ==
    {"push_pred", "pop_pred", "close_set"} \cup {op \o "_read" : op \in SnapOps}

Holders == {t \in Threads : pc[t] \in HoldingPcs}

InSnap(t) ==
    pc[t] \in {op \o "_lock" : op \in SnapOps} \cup {op \o "_read" : op \in SnapOps}

\* No thread is running inside an operation: each is outside a call or
\* suspended in a wait, so no notification is still to be issued.
Quiescent == \A t \in Threads : pc[t] \in {"idle", "push_wait", "pop_wait"}

\* The slots holding the items not yet popped, oldest first.
LiveSlots == [i \in 1 .. count |-> (out + i - 1) % BUFFER_SIZE]

\* C11: a push enters its wait only on finding count == capacity and the
\* buffer open, a pop only on finding count == 0 and the buffer open; a push
\* that finds an open buffer with space inserts, and a pop that finds an item
\* takes it, neither suspending.
C11_SuspensionPoints ==
    [][\A t \in Threads :
         /\ (pc[t] # "push_wait" /\ pc'[t] = "push_wait")
               => (pc[t] = "push_pred" /\ count = BUFFER_SIZE /\ ~closed)
         /\ (pc[t] # "pop_wait" /\ pc'[t] = "pop_wait")
               => (pc[t] = "pop_pred" /\ count = 0 /\ ~closed)
         /\ (pc[t] = "push_pred" /\ Steps(t) /\ ~closed /\ count < BUFFER_SIZE)
               => (pc'[t] = "push_notify" /\ pushed' = Append(pushed, arg[t]))
         /\ (pc[t] = "pop_pred" /\ Steps(t) /\ count > 0)
               => (pc'[t] = "pop_notify" /\ Len(popped') = Len(popped) + 1)]_vars

\* A pop is suspended on an open, empty buffer through which items have passed.
C11_Witness ==
    /\ ~closed
    /\ count = 0
    /\ Len(popped) > 0
    /\ \E t \in Threads : pc[t] = "pop_wait"

\* C12: in the run push, push, ..., one push more than the ring holds, then
\* pops, close, pop (capacity 2: push A, push B, push C; pop, pop, pop; close;
\* pop): every push returns true, the last push does not complete before the
\* first pop, the pops return the pushed values in order, the pop after
\* close() returns end-of-stream, and outside a snapshot the run never hangs
\* on the way: the first pop lets the suspended push go on and return.
C12_Scenario ==
    /\ ret.op = "push" => ret.ok
    /\ popped = <<>> => Len(pushed) <= BUFFER_SIZE
    /\ (ret.op = "pop" /\ ret.ok) =>
          /\ Len(popped) > 0
          /\ ret.value = Len(popped)
          /\ popped = SubSeq(pushed, 1, Len(popped))
    /\ (ret.op = "pop" /\ ~ret.ok) => (closed /\ Len(popped) = ScenarioItems)
    /\ (\A t \in Threads : ~InSnap(t)) => ENABLED ScenarioStep

\* The end of the run: everything pushed was popped, the buffer is closed and
\* the last pop has returned end-of-stream.
C12_Witness ==
    /\ closed
    /\ popped = [i \in 1 .. ScenarioItems |-> i]
    /\ PopReturnedEndOfStream
    /\ \A t \in Threads : pc[t] = "idle"

\* C13: once the buffer is closed and empty no step changes count, the
\* indices, the slots or the closed flag, and a push or pop that evaluates
\* its predicate from then on returns false.
C13_ClosedEmptyIsTerminal ==
    [][(closed /\ count = 0) =>
         /\ UNCHANGED queue
         /\ \A t \in Threads :
              /\ (pc[t] = "push_pred" /\ Steps(t))
                    => ret' = Returned(t, "push", FALSE, arg[t])
              /\ (pc[t] = "pop_pred" /\ Steps(t))
                    => ret' = Returned(t, "pop", FALSE, val[t])]_vars

\* On a drained, closed buffer a pop has returned end-of-stream while a push
\* is on its way in.
C13_Witness ==
    /\ closed
    /\ count = 0
    /\ Len(popped) > 0
    /\ PopReturnedEndOfStream
    /\ \E t \in Threads : pc[t] = "push_lock"

C15_Snapshots ==
    /\ [](/\ ret.op = "size" => ret.value = count
          /\ ret.op = "empty" => ret.ok = (count = 0)
          /\ ret.op = "full" => ret.ok = (Len(pushed) - Len(popped) = BUFFER_SIZE))
    /\ [][\A t \in Threads :
            (InSnap(t) /\ Steps(t))
               => /\ UNCHANGED <<queue, pushed, popped>>
                  /\ pc'[t] = "idle" => (mtx = t /\ ret'.thread = t)]_vars

\* full() has returned true after BUFFER_SIZE pushes and no pop.
C15_Witness ==
    /\ ret.op = "full" /\ ret.ok
    /\ Len(pushed) = BUFFER_SIZE
    /\ popped = <<>>

\* C16: the mutex has at most one holder, the thread at a position where it
\* holds the mutex is that holder, a suspended thread is not, and the buffer
\* changes only in a step of the holder.
C16_MonitorDiscipline ==
    /\ [](/\ Holders = (IF mtx = NoThread THEN {} ELSE {mtx})
          /\ \A t \in WaitingNotFull \cup WaitingNotEmpty : mtx # t)
    /\ [][queue' # queue =>
            (mtx \in Threads /\ pc[mtx] \in HoldingPcs /\ Steps(mtx))]_vars

\* While one thread is suspended in pop another holds the mutex inside push.
C16_Witness ==
    \E t, u \in Threads :
        /\ pc[t] = "pop_wait"
        /\ pc[u] = "push_pred"
        /\ mtx = u

\* C17: in circularBufferTest every thread function returns, no push is
\* rejected, and when main has read the size, pushed_count and popped_count
\* both equal TOTAL_ITEMS and size() has returned 0.
C17_HarnessRun ==
    /\ <>(finished = Producers \cup Consumers \cup {Main})
    /\ [](~ENABLED (\E t \in Threads : ProducerRejected(t)))
    /\ [](Main \in finished =>
            /\ pushed_count = TOTAL_ITEMS
            /\ popped_count = TOTAL_ITEMS
            /\ ret = Returned(Main, "size", TRUE, 0))

\* The end of the test: every thread function has returned and each item was
\* pushed and popped.
C17_Witness ==
    /\ finished = Producers \cup Consumers \cup {Main}
    /\ Len(pushed) = TOTAL_ITEMS
    /\ popped_count = TOTAL_ITEMS
    /\ ret.op = "size"

\* C18: when no thread is running inside an operation, a suspended consumer
\* means an open, empty buffer and a suspended producer an open, full one.
C18_NoLostWakeup ==
    Quiescent =>
        /\ WaitingNotEmpty # {} => (count = 0 /\ ~closed)
        /\ WaitingNotFull # {} => (count = BUFFER_SIZE /\ ~closed)

\* Every running thread has returned, items have passed through the buffer
\* and two consumers are left suspended.
C18_Witness ==
    /\ Quiescent
    /\ Cardinality(WaitingNotEmpty) = 2
    /\ Len(popped) > 0

\* C19: with the mutex free both indices are within the ring, in is out plus
\* count modulo the capacity, and the count slots from out on hold the pushed
\* values not yet popped, in order; a store never hits one of those slots.
C19_RingIndexConsistency ==
    /\ [](mtx = NoThread =>
            /\ in \in Slots /\ out \in Slots
            /\ in = (out + count) % BUFFER_SIZE
            /\ [i \in 1 .. count |-> buffer[LiveSlots[i]]]
                  = SubSeq(pushed, Len(popped) + 1, Len(pushed)))
    /\ [][\A i \in Slots :
            buffer'[i] # buffer[i] => \A k \in 1 .. count : LiveSlots[k] # i]_vars

\* The ring is full and the items held wrap around its end.
C19_Witness ==
    /\ mtx = NoThread
    /\ count = BUFFER_SIZE
    /\ out > 0

\* C20: a pop_front or pop_back that finds the deque empty returns false in
\* that step and leaves the deque as it is; the deque always holds exactly the
\* values pushed and not popped, so its size is the pushes completed minus the
\* pops that succeeded; and dequeTest ends, every thread function having
\* returned, with pushed_count == popped_count == TOTAL_ITEMS and size() == 0.
C20_Deque ==
    /\ [][\A t \in Threads :
            (pc[t] \in {"dq_pop_front_body", "dq_pop_back_body"}
                /\ data = <<>> /\ Steps(t))
               => /\ pc'[t] = "idle"
                  /\ ret'.thread = t /\ ~ret'.ok
                  /\ UNCHANGED <<data, popped, popped_count>>]_vars
    /\ [](/\ Len(data) = Len(pushed) - Len(popped)
          /\ Range(data) = Range(pushed) \ Range(popped))
    /\ <>(finished = Producers \cup DequeConsumers \cup {Main})
    /\ [](Main \in finished =>
            /\ pushed_count = TOTAL_ITEMS
            /\ popped_count = TOTAL_ITEMS
            /\ ret = Returned(Main, "size", TRUE, 0))

\* The end of dequeTest, with values taken from both ends of the deque.
C20_Witness ==
    /\ finished = Producers \cup DequeConsumers \cup {Main}
    /\ popped_count = TOTAL_ITEMS
    /\ data = <<>>
    /\ ret.op = "size"

====
